---- MODULE Spec2Model ----
(***************************************************************************)
(* Model of winkeyerdaemon.py: the cwdaemon UDP frame handler              *)
(* (CwdaemonServer.handle), the session globals state_speed / state_ptt /  *)
(* state_delay, and the WinKeyer serial command encoder.                   *)
(*                                                                         *)
(* Strings are sequences of code points (Python str); what reaches the     *)
(* serial port is a sequence of bytes (the result of str.encode()).        *)
(***************************************************************************)
EXTENDS Integers, Sequences, FiniteSets, TLC

VARIABLES
    state_speed,   \* global state_speed
    state_ptt,     \* global state_ptt
    state_delay,   \* global state_delay
    winkeyer,      \* the WinKeyer singleton's private fields
    request,       \* the decoded datagram handled last (self.request[0].decode())
    port,          \* the bytes the last handle() call wrote to winkeyer.port
    error,         \* the exception that ended the last handle() call, or "none"
    wk_ptt,        \* the keyer's PTT line: argument of the last 0x18 command it received
    served,        \* number of datagrams handled so far, modulo 2
    call,          \* the WinKeyer method last called from outside handle(), and its argument
    server         \* the UDPServer and the serial line, a datagram and a byte at a time:
                   \*   socket   datagrams received and not yet read, oldest first
                   \*   arrived  every datagram that ever arrived, oldest first
                   \*   handlers the bytes each running handle() has still to write
                   \*   stream   every byte the keyer has received, oldest first
                   \*   log      the datagram and the bytes of every handle() started

vars == <<state_speed, state_ptt, state_delay, winkeyer, request, port, error, wk_ptt,
          served, call, server>>

(***************************************************************************)
(* Bounds of the model                                                     *)
(***************************************************************************)
MaxLen == 3        \* longest text payload sent by the modelled client
MaxFreq == 4002    \* highest sidetone frequency requested, short of the far one
MaxProsignLen == 2 \* longest text of the client that sends prosigns
MaxFrames == 3     \* datagrams sent to the server that is followed byte by byte
MaxStripLen == 2   \* longest text of the client that sends every whitespace

(***************************************************************************)
(* Characters                                                              *)
(***************************************************************************)
ESC == 27
NUL == 0
TAB == 9
LF == 10
VT == 11
FF == 12
CR == 13
SPACE == 32
PLUS == 43
MINUS == 45
UNDERSCORE == 95
DIGIT0 == 48

Digits == 48..57

\* ord() of a one-character TLA+ string, for the characters the handler names
Ord(c) ==
    CASE c = "0" -> 48 [] c = "1" -> 49 [] c = "2" -> 50 [] c = "3" -> 51
      [] c = "4" -> 52 [] c = "5" -> 53 [] c = "6" -> 54 [] c = "7" -> 55
      [] c = "8" -> 56 [] c = "9" -> 57
      [] c = "a" -> 97 [] c = "b" -> 98 [] c = "c" -> 99 [] c = "d" -> 100
      [] c = "e" -> 101 [] c = "f" -> 102 [] c = "g" -> 103 [] c = "h" -> 104
      [] c = "x" -> 120 [] c = "z" -> 122
      [] c = "A" -> 65 [] c = "B" -> 66 [] c = "C" -> 67 [] c = "D" -> 68
      [] c = "E" -> 69 [] c = "K" -> 75 [] c = "N" -> 78 [] c = "Q" -> 81
      [] c = "R" -> 82 [] c = "S" -> 83 [] c = "T" -> 84
      [] c = "*" -> 42 [] c = "=" -> 61 [] c = "<" -> 60 [] c = "(" -> 40
      [] c = "!" -> 33 [] c = "&" -> 38 [] c = ">" -> 62

(***************************************************************************)
(* Python built-ins used by the handler                                    *)
(***************************************************************************)

\* s[i:] with Python's 0-based index i
Slice(s, i) == SubSeq(s, i + 1, Len(s))

\* c in s
Contains(s, c) == \E i \in 1..Len(s) : s[i] = c

\* s[:s.index(c)], for c in s
UpToFirst(s, c) ==
    LET i == CHOOSE k \in 1..Len(s) :
                 s[k] = c /\ \A j \in 1..(k - 1) : s[j] # c
    IN SubSeq(s, 1, i - 1)

\* the characters int() strips around a literal
IntSpace == {TAB, LF, VT, FF, CR, SPACE}

RECURSIVE LStrip(_, _)
LStrip(s, chars) ==
    IF s # <<>> /\ s[1] \in chars THEN LStrip(Tail(s), chars) ELSE s

\* s.rstrip(chars)
RECURSIVE RStrip(_, _)
RStrip(s, chars) ==
    IF s # <<>> /\ s[Len(s)] \in chars
    THEN RStrip(SubSeq(s, 1, Len(s) - 1), chars)
    ELSE s

\* value of a string of digits and underscores, read left to right
RECURSIVE DigitsValue(_, _)
DigitsValue(s, acc) ==
    IF s = <<>> THEN acc
    ELSE IF s[1] = UNDERSCORE THEN DigitsValue(Tail(s), acc)
    ELSE DigitsValue(Tail(s), 10 * acc + (s[1] - DIGIT0))

\* digits with single underscores between them
IsDigitString(s) ==
    /\ s # <<>>
    /\ \A i \in 1..Len(s) : s[i] \in Digits \cup {UNDERSCORE}
    /\ s[1] \in Digits
    /\ s[Len(s)] \in Digits
    /\ \A i \in 1..(Len(s) - 1) : ~(s[i] = UNDERSCORE /\ s[i + 1] = UNDERSCORE)

\* int(s): [ok |-> TRUE, val |-> n], or ok = FALSE where int() raises ValueError
ParseInt(s) ==
    LET t == RStrip(LStrip(s, IntSpace), IntSpace)
        signed == t # <<>> /\ t[1] \in {PLUS, MINUS}
        body == IF signed THEN Tail(t) ELSE t
    IN IF IsDigitString(body)
       THEN [ok |-> TRUE,
             val |-> IF signed /\ t[1] = MINUS
                     THEN 0 - DigitsValue(body, 0)
                     ELSE DigitsValue(body, 0)]
       ELSE [ok |-> FALSE, val |-> 0]

\* chr(n) raises ValueError outside range(0x110000)
ChrOk(n) == n >= 0 /\ n < 1114112

\* str.upper() of one character with code point in 0..255 (all the model produces)
UpperChar(c) ==
    IF c \in 97..122 THEN <<c - 32>>
    ELSE IF c = 181 THEN <<924>>
    ELSE IF c = 223 THEN <<83, 83>>
    ELSE IF c \in 224..254 /\ c # 247 THEN <<c - 32>>
    ELSE IF c = 255 THEN <<376>>
    ELSE <<c>>

\* str.upper()
RECURSIVE Upper(_)
Upper(s) == IF s = <<>> THEN <<>> ELSE UpperChar(s[1]) \o Upper(Tail(s))

\* str.encode() of one character: UTF-8
EncodeChar(c) ==
    IF c < 128 THEN <<c>>
    ELSE IF c < 2048 THEN <<192 + (c \div 64), 128 + (c % 64)>>
    ELSE <<224 + (c \div 4096), 128 + ((c \div 64) % 64), 128 + (c % 64)>>

\* str.encode()
RECURSIVE Encode(_)
Encode(s) == IF s = <<>> THEN <<>> ELSE EncodeChar(s[1]) \o Encode(Tail(s))

\* a | b on non-negative integers
RECURSIVE BitOr(_, _)
BitOr(a, b) ==
    IF a = 0 THEN b
    ELSE IF b = 0 THEN a
    ELSE (IF a % 2 = 1 \/ b % 2 = 1 THEN 1 ELSE 0) + 2 * BitOr(a \div 2, b \div 2)

\* a << n
RECURSIVE ShiftLeft(_, _)
ShiftLeft(a, n) == IF n = 0 THEN a ELSE ShiftLeft(2 * a, n - 1)

\* int(b) of a bool
BoolInt(b) == IF b THEN 1 ELSE 0

\* int(x) of the float x = num / den (den > 0): truncation toward zero
TruncDiv(num, den) ==
    IF num >= 0 THEN num \div den ELSE 0 - ((0 - num) \div den)

(***************************************************************************)
(* Module-level tables and functions of winkeyerdaemon.py                  *)
(***************************************************************************)
WK_SIDETONE_CODES ==
    (4000 :> 1) @@ (2000 :> 2) @@ (1333 :> 3) @@ (1000 :> 4) @@ (800 :> 5)
    @@ (666 :> 6) @@ (571 :> 7) @@ (500 :> 8) @@ (444 :> 9) @@ (400 :> 10)

\* tuple(sorted(WK_SIDETONE_CODES))
WK_SIDETONE_FREQUENCIES == <<400, 444, 500, 571, 666, 800, 1000, 1333, 2000, 4000>>

\* wk_sidetone_code without the comparison of the two distances: the lower
\* bracketing frequency is always chosen
wk_sidetone_code_floor(freq) ==
    LET F == WK_SIDETONE_FREQUENCIES
        min_freq == F[1]
        max_freq == F[Len(F)]
        chosen_freq ==
            IF freq <= min_freq THEN min_freq
            ELSE IF freq >= max_freq THEN max_freq
            ELSE LET i == CHOOSE k \in 1..(Len(F) - 1) :
                              freq < F[k + 1] /\ \A j \in 1..(k - 1) : ~(freq < F[j + 1])
                 IN F[i]
    IN WK_SIDETONE_CODES[chosen_freq]

\* wk_sidetone_code with <= where the code has <: a tie goes to the lower
wk_sidetone_code_ties_low(freq) ==
    LET F == WK_SIDETONE_FREQUENCIES
        min_freq == F[1]
        max_freq == F[Len(F)]
        chosen_freq ==
            IF freq <= min_freq THEN min_freq
            ELSE IF freq >= max_freq THEN max_freq
            ELSE LET i == CHOOSE k \in 1..(Len(F) - 1) :
                              freq < F[k + 1] /\ \A j \in 1..(k - 1) : ~(freq < F[j + 1])
                 IN IF freq - F[i] <= F[i + 1] - freq THEN F[i] ELSE F[i + 1]
    IN WK_SIDETONE_CODES[chosen_freq]

wk_sidetone_code(freq) ==
    LET F == WK_SIDETONE_FREQUENCIES
        min_freq == F[1]
        max_freq == F[Len(F)]
        chosen_freq ==
            IF freq <= min_freq THEN min_freq
            ELSE IF freq >= max_freq THEN max_freq
            ELSE LET i == CHOOSE k \in 1..(Len(F) - 1) :
                              freq < F[k + 1] /\ \A j \in 1..(k - 1) : ~(freq < F[j + 1])
                 IN IF freq - F[i] < F[i + 1] - freq THEN F[i] ELSE F[i + 1]
    IN WK_SIDETONE_CODES[chosen_freq]

WK_ULTIMATIC_PRIORITY_CODES == [normal |-> 0, dahs |-> 1, dits |-> 2]

WK_ULTIMATIC_PRIORITIES == DOMAIN WK_ULTIMATIC_PRIORITY_CODES

WK_HANG_TIME_CODES == (1 :> 0) @@ (2 :> 1) @@ (4 :> 2) @@ (8 :> 3)

WK_HANG_TIMES == DOMAIN WK_HANG_TIME_CODES

\* WK_PINCONFIG_KEY_BITS with the two rows exchanged
WK_PINCONFIG_KEY_BITS_rows_exchanged ==
    [c \in BOOLEAN |-> IF c THEN (1 :> 2) @@ (2 :> 3) ELSE (1 :> 3) @@ (2 :> 2)]

\* WK_PINCONFIG_KEY_BITS whose corrected row gives both keys bit 3
WK_PINCONFIG_KEY_BITS_same_bit ==
    [c \in BOOLEAN |-> IF c THEN (1 :> 3) @@ (2 :> 3) ELSE (1 :> 2) @@ (2 :> 3)]

\* [corrected][key]
WK_PINCONFIG_KEY_BITS ==
    [c \in BOOLEAN |-> IF c THEN (1 :> 3) @@ (2 :> 2) ELSE (1 :> 2) @@ (2 :> 3)]

MERGE_LETTERS == 27

\* TABLE with the letters of < and ( exchanged
PROSIGN_TABLE_sk_kn_exchanged ==
    (Ord("*") :> <<Ord("A"), Ord("R")>>) @@ (Ord("=") :> <<Ord("B"), Ord("T")>>)
    @@ (Ord("<") :> <<Ord("K"), Ord("N")>>) @@ (Ord("(") :> <<Ord("S"), Ord("K")>>)
    @@ (Ord("!") :> <<Ord("S"), Ord("N")>>) @@ (Ord("&") :> <<Ord("A"), Ord("S")>>)
    @@ (Ord(">") :> <<Ord("B"), Ord("K")>>)

\* TABLE of _expand_cwdaemon_prosigns_for_winkeyer
PROSIGN_TABLE ==
    (Ord("*") :> <<Ord("A"), Ord("R")>>) @@ (Ord("=") :> <<Ord("B"), Ord("T")>>)
    @@ (Ord("<") :> <<Ord("S"), Ord("K")>>) @@ (Ord("(") :> <<Ord("K"), Ord("N")>>)
    @@ (Ord("!") :> <<Ord("S"), Ord("N")>>) @@ (Ord("&") :> <<Ord("A"), Ord("S")>>)
    @@ (Ord(">") :> <<Ord("B"), Ord("K")>>)

\* _expand_cwdaemon_prosigns_for_winkeyer
RECURSIVE expand_cwdaemon_prosigns_for_winkeyer(_)
expand_cwdaemon_prosigns_for_winkeyer(s) ==
    IF s = <<>> THEN <<>>
    ELSE (IF s[1] \in DOMAIN PROSIGN_TABLE
          THEN <<MERGE_LETTERS>> \o PROSIGN_TABLE[s[1]]
          ELSE <<s[1]>>)
         \o expand_cwdaemon_prosigns_for_winkeyer(Tail(s))

\* winkeyer_weighting with // where the code has int(... / ...)
winkeyer_weighting_floor(cwdaemon_value) ==
    ((cwdaemon_value * (90 - 10)) \div (50 - (0 - 50))) + 50

\* winkeyer_weighting dividing by the upper half of cwdaemon's range only
winkeyer_weighting_half_span(cwdaemon_value) ==
    TruncDiv(cwdaemon_value * (90 - 10), 50 - 0) + 50

\* winkeyer_weighting, for -50 <= cwdaemon_value <= 50 (the assert at its top)
winkeyer_weighting(cwdaemon_value) ==
    TruncDiv(cwdaemon_value * (90 - 10), 50 - (0 - 50)) + 50

(***************************************************************************)
(* class WinKeyer.  A method yields the bytes it writes to self.port and   *)
(* the exception it raises ("none" when it returns normally).              *)
(***************************************************************************)
Wrote(bytes) == [port |-> bytes, error |-> "none"]

Raised(e) == [port |-> <<>>, error |-> e]

WinKeyer_set_speed(speed) ==
    IF ~(0 <= speed /\ speed <= 99) THEN Raised("AssertionError")
    ELSE Wrote(Encode(<<2, speed>>))

WinKeyer_abort == Wrote(Encode(<<10>>))

WinKeyer_send(msg) == Wrote(Encode(Upper(msg)))

\* tune without the abort() that precedes the tune command
WinKeyer_tune_without_abort(seconds) ==
    IF ~(0 <= seconds /\ seconds <= 99) THEN Raised("AssertionError")
    ELSE Wrote(Encode(<<25, seconds>>))

WinKeyer_tune(seconds) ==
    IF ~(0 <= seconds /\ seconds <= 99) THEN Raised("AssertionError")
    ELSE Wrote(WinKeyer_abort.port \o Encode(<<25, seconds>>))

WinKeyer_set_first_extension(extension) ==
    IF ~(0 <= extension /\ extension <= 250) THEN Raised("AssertionError")
    ELSE Wrote(Encode(<<16, extension>>))

WinKeyer_set_weighting(weighting) ==
    LET w == IF weighting < 10 THEN 10
             ELSE IF weighting > 90 THEN 90
             ELSE weighting
    IN Wrote(Encode(<<3, w>>))

WinKeyer_assert_ptt(ptt) ==
    IF ptt THEN Wrote(Encode(<<24, 1>>)) ELSE Wrote(Encode(<<24, 0>>))

\* the register byte computed at the end of _set_pinconfig
pinconfig_data(self) ==
    LET upc == WK_ULTIMATIC_PRIORITY_CODES[self.ultimatic_priority]
        key1_enable_bit == WK_PINCONFIG_KEY_BITS[self.corrected][1]
        key2_enable_bit == WK_PINCONFIG_KEY_BITS[self.corrected][2]
    IN BitOr(ShiftLeft(upc % 4, 6),
       BitOr(ShiftLeft(WK_HANG_TIME_CODES[self.hang_time] % 4, 4),
       BitOr(ShiftLeft(BoolInt(self.key2_enable) % 2, key2_enable_bit),
       BitOr(ShiftLeft(BoolInt(self.key1_enable) % 2, key1_enable_bit),
       BitOr(ShiftLeft(BoolInt(self.sidetone_enable) % 2, 1),
             ShiftLeft(BoolInt(self.ptt_enable) % 2, 0))))))

\* _set_pinconfig(**kw): kw maps the keyword arguments that are not None
WinKeyer_set_pinconfig(self, kw) ==
    LET given(f) == f \in DOMAIN kw
        bad == \/ given("ultimatic_priority")
                  /\ kw["ultimatic_priority"] \notin WK_ULTIMATIC_PRIORITIES
               \/ given("hang_time") /\ kw["hang_time"] \notin WK_HANG_TIMES
        \* fields are assigned in order; the asserts come after the four booleans
        partial == [f \in DOMAIN self |->
                      IF given(f) /\ f \in {"sidetone_enable", "key1_enable",
                                            "key2_enable", "ptt_enable"}
                      THEN kw[f] ELSE self[f]]
        self2 == [f \in DOMAIN self |-> IF given(f) THEN kw[f] ELSE self[f]]
    IN IF bad
       THEN [self |-> partial, port |-> <<>>, error |-> "AssertionError"]
       ELSE [self |-> self2, port |-> Encode(<<9, pinconfig_data(self2)>>),
             error |-> "none"]

WinKeyer_set_key1_enable(self, enable) ==
    WinKeyer_set_pinconfig(self, [key1_enable |-> enable])

WinKeyer_set_key2_enable(self, enable) ==
    WinKeyer_set_pinconfig(self, [key2_enable |-> enable])

WinKeyer_set_ultimatic_priority(self, ultimatic_priority) ==
    WinKeyer_set_pinconfig(self, [ultimatic_priority |-> ultimatic_priority])

WinKeyer_set_hang_time(self, hang_time) ==
    WinKeyer_set_pinconfig(self, [hang_time |-> hang_time])

WinKeyer_set_ptt_enable(self, enable) ==
    WinKeyer_set_pinconfig(self, [ptt_enable |-> enable])

WinKeyer_set_sidetone_enable(self, enable) ==
    WinKeyer_set_pinconfig(self, [sidetone_enable |-> enable])

WinKeyer_set_sidetone_frequency(frequency) ==
    Wrote(Encode(<<1, wk_sidetone_code(frequency)>>))

(***************************************************************************)
(* CwdaemonServer.handle                                                   *)
(***************************************************************************)
\* string.whitespace as it is, the space still in it
WHITESPACE_TO_STRIP_with_space == {SPACE, TAB, LF, CR, VT, FF}

WHITESPACE_TO_STRIP == {TAB, LF, CR, VT, FF}

CANCEL_BUFFERED_SPEED_CHANGE == 30
BUFFERED_SPEED_CHANGE == 28
MIN_SPEED == 5
MAX_SPEED == 99

\* the for-loop over the message that translates cwdaemon's + and - controls;
\* ok = FALSE where chr(speed) raises ValueError
RECURSIVE speed_scan(_, _, _)
speed_scan(data, speed, speed_message_data) ==
    IF data = <<>>
    THEN [speed |-> speed, data |-> speed_message_data, ok |-> TRUE]
    ELSE LET nextchar == data[1]
             up == IF speed > MAX_SPEED - 2 THEN MAX_SPEED ELSE speed + 2
             down == IF speed < MIN_SPEED + 2 THEN MIN_SPEED ELSE speed - 2
         IN IF nextchar = PLUS
            THEN IF speed # 0
                 THEN IF ChrOk(up)
                      THEN speed_scan(Tail(data), up,
                               speed_message_data \o <<BUFFERED_SPEED_CHANGE, up>>)
                      ELSE [speed |-> up, data |-> speed_message_data, ok |-> FALSE]
                 ELSE speed_scan(Tail(data), speed, speed_message_data)
            ELSE IF nextchar = MINUS
            THEN IF speed # 0
                 THEN IF ChrOk(down)
                      THEN speed_scan(Tail(data), down,
                               speed_message_data \o <<BUFFERED_SPEED_CHANGE, down>>)
                      ELSE [speed |-> down, data |-> speed_message_data, ok |-> FALSE]
                 ELSE speed_scan(Tail(data), speed, speed_message_data)
            ELSE speed_scan(Tail(data), speed, speed_message_data \o <<nextchar>>)

\* speed_controls that keeps the + and - of a message when the speed is 0
speed_controls_keeps_ignored(data, orig_speed) ==
    IF Contains(data, PLUS) \/ Contains(data, MINUS)
    THEN LET r == speed_scan(data, orig_speed, <<>>)
         IN IF ~r.ok THEN [data |-> r.data, ok |-> FALSE]
            ELSE IF r.speed # 0
            THEN [data |-> r.data \o <<CANCEL_BUFFERED_SPEED_CHANGE>>, ok |-> TRUE]
            ELSE [data |-> data, ok |-> TRUE]
    ELSE [data |-> data, ok |-> TRUE]

\* lines 614-650: the message after the +/- speed controls are expanded
speed_controls(data, orig_speed) ==
    IF Contains(data, PLUS) \/ Contains(data, MINUS)
    THEN LET r == speed_scan(data, orig_speed, <<>>)
         IN IF ~r.ok THEN [data |-> r.data, ok |-> FALSE]
            ELSE IF r.speed # 0
            THEN [data |-> r.data \o <<CANCEL_BUFFERED_SPEED_CHANGE>>, ok |-> TRUE]
            ELSE [data |-> r.data, ok |-> TRUE]
    ELSE [data |-> data, ok |-> TRUE]

\* lines 601-612: trailing whitespace strip, then prosign expansion
strip_and_expand(data) ==
    expand_cwdaemon_prosigns_for_winkeyer(RStrip(data, WHITESPACE_TO_STRIP))

\* the state the handler starts from, before it has written anything
Cur ==
    [speed |-> state_speed, ptt |-> state_ptt, delay |-> state_delay,
     winkeyer |-> winkeyer, port |-> <<>>, error |-> "none"]

HasSpeedControl(str) == Contains(str, PLUS) \/ Contains(str, MINUS)

\* handle_message without line 641: the working speed is stored back
handle_message_keeps_speed(data) ==
    LET str == strip_and_expand(data)
        r == speed_controls(str, state_speed)
        scan == speed_scan(str, state_speed, <<>>)
    IN IF ~r.ok THEN [Cur EXCEPT !.error = "ValueError"]
       ELSE [Cur EXCEPT !.port = WinKeyer_send(r.data).port,
                        !.speed = IF HasSpeedControl(str) THEN scan.speed
                                  ELSE state_speed]

\* handle_message with the prosigns expanded after the speed controls
handle_message_prosigns_last(data) ==
    LET r == speed_controls(RStrip(data, WHITESPACE_TO_STRIP), state_speed)
    IN IF ~r.ok THEN [Cur EXCEPT !.error = "ValueError"]
       ELSE [Cur EXCEPT
                !.port = WinKeyer_send(expand_cwdaemon_prosigns_for_winkeyer(r.data)).port]

\* the else branch of handle: a text message
handle_message(data) ==
    LET r == speed_controls(strip_and_expand(data), state_speed)
    IN IF ~r.ok THEN [Cur EXCEPT !.error = "ValueError"]
       ELSE [Cur EXCEPT !.port = WinKeyer_send(r.data).port]

\* handle_speed that skips the keyer when the speed is the one already set
handle_speed_skips_unchanged(arg) ==
    LET speed == ParseInt(arg)
        w == WinKeyer_set_speed(speed.val)
    IN IF ~speed.ok THEN [Cur EXCEPT !.error = "ValueError"]
       ELSE IF speed.val = state_speed THEN Cur
       ELSE [Cur EXCEPT !.speed = speed.val, !.port = w.port, !.error = w.error]

\* ESC '2'
handle_speed(arg) ==
    LET speed == ParseInt(arg)
        w == WinKeyer_set_speed(speed.val)
    IN IF ~speed.ok THEN [Cur EXCEPT !.error = "ValueError"]
       ELSE [Cur EXCEPT !.speed = speed.val, !.port = w.port, !.error = w.error]

\* Python 3 defines no ordering between a str and an int
StrIntOrdered == FALSE

\* ESC '3', lines 511-516: what follows the range warning
handle_tone_apply(arg) ==
    LET tone == ParseInt(arg)
        f == WinKeyer_set_sidetone_frequency(tone.val)
        off == WinKeyer_set_sidetone_enable(winkeyer, FALSE)
        on == WinKeyer_set_sidetone_enable(winkeyer, TRUE)
    IN IF ~tone.ok THEN [Cur EXCEPT !.error = "ValueError"]
       ELSE IF tone.val = 0
       THEN [Cur EXCEPT !.winkeyer = off.self, !.port = off.port]
       ELSE [Cur EXCEPT !.winkeyer = on.self, !.port = f.port \o on.port]

\* ESC '3': tone is still the str data[2:] when it is compared with 300
handle_tone(arg) ==
    IF ~StrIntOrdered THEN [Cur EXCEPT !.error = "TypeError"]
    ELSE handle_tone_apply(arg)

\* ESC '7'
handle_weighting(arg) ==
    LET weighting == ParseInt(arg)
    IN IF ~weighting.ok THEN [Cur EXCEPT !.error = "ValueError"]
       ELSE IF (0 - 50) <= weighting.val /\ weighting.val <= 50
       THEN [Cur EXCEPT
                !.port = WinKeyer_set_weighting(winkeyer_weighting(weighting.val)).port]
       ELSE Cur

\* handle_ptt without the get_ptt() tests: writes whatever the state is
handle_ptt_unconditional(ptt) ==
    IF ptt \notin {<<Ord("0")>>, <<Ord("1")>>} THEN Cur
    ELSE IF state_delay > 0 THEN Cur
    ELSE IF ptt = <<Ord("0")>>
    THEN [Cur EXCEPT !.port = WinKeyer_assert_ptt(FALSE).port, !.ptt = FALSE]
    ELSE [Cur EXCEPT !.port = WinKeyer_assert_ptt(TRUE).port, !.ptt = TRUE]

\* handle_ptt without the set_ptt(False) after assert_ptt(False)
handle_ptt_forgets_off(ptt) ==
    IF ptt \notin {<<Ord("0")>>, <<Ord("1")>>} THEN Cur
    ELSE IF state_delay > 0 THEN Cur
    ELSE IF ptt = <<Ord("0")>>
    THEN IF state_ptt
         THEN [Cur EXCEPT !.port = WinKeyer_assert_ptt(FALSE).port]
         ELSE Cur
    ELSE IF ~state_ptt
         THEN [Cur EXCEPT !.port = WinKeyer_assert_ptt(TRUE).port, !.ptt = TRUE]
         ELSE Cur

\* ESC 'a'
handle_ptt(ptt) ==
    IF ptt \notin {<<Ord("0")>>, <<Ord("1")>>} THEN Cur
    ELSE IF state_delay > 0 THEN Cur
    ELSE IF ptt = <<Ord("0")>>
    THEN IF state_ptt
         THEN [Cur EXCEPT !.port = WinKeyer_assert_ptt(FALSE).port, !.ptt = FALSE]
         ELSE Cur
    ELSE IF ~state_ptt
         THEN [Cur EXCEPT !.port = WinKeyer_assert_ptt(TRUE).port, !.ptt = TRUE]
         ELSE Cur

\* ESC 'c'
handle_tune(arg) ==
    LET seconds == ParseInt(arg)
        t == WinKeyer_tune(seconds.val)
    IN IF ~seconds.ok THEN [Cur EXCEPT !.error = "ValueError"]
       ELSE IF 0 <= seconds.val /\ seconds.val <= 99
       THEN IF seconds.val # 0
            THEN [Cur EXCEPT !.port = t.port, !.error = t.error]
            ELSE Cur
       ELSE Cur

\* ESC 'd'
handle_delay(arg) ==
    LET delay == ParseInt(arg)
    IN IF ~delay.ok THEN [Cur EXCEPT !.error = "ValueError"]
       ELSE [Cur EXCEPT !.delay = delay.val]

\* the truncation applied to escape frames only
truncate_escape_only(request0) ==
    IF Contains(request0, NUL) /\ request0[1] = ESC
    THEN UpToFirst(request0, NUL) ELSE request0

\* lines 492-494: the datagram up to its first chr(0)
truncate(request0) ==
    IF Contains(request0, NUL) THEN UpToFirst(request0, NUL) ELSE request0

\* handle() whose chain of elif ends by sending the frame as text
handle_sends_unknown(request0) ==
    LET data == truncate(request0)
    IN IF Len(data) < 1 THEN [Cur EXCEPT !.error = "IndexError"]
       ELSE IF data[1] = ESC
       THEN IF Len(data) < 2 THEN [Cur EXCEPT !.error = "IndexError"]
            ELSE LET code == data[2]
                     arg == Slice(data, 2)
                 IN IF code = Ord("2") THEN handle_speed(arg)
                    ELSE IF code = Ord("3") THEN handle_tone(arg)
                    ELSE IF code = Ord("4") THEN [Cur EXCEPT !.port = WinKeyer_abort.port]
                    ELSE IF code = Ord("7") THEN handle_weighting(arg)
                    ELSE IF code = Ord("a") THEN handle_ptt(arg)
                    ELSE IF code = Ord("c") THEN handle_tune(arg)
                    ELSE IF code = Ord("d") THEN handle_delay(arg)
                    ELSE handle_message(arg)
       ELSE handle_message(data)

\* handle(), from the decoded datagram to the state it leaves behind
handle(request0) ==
    LET data == truncate(request0)
    IN IF Len(data) < 1 THEN [Cur EXCEPT !.error = "IndexError"]      \* data[0]
       ELSE IF data[1] = ESC
       THEN IF Len(data) < 2 THEN [Cur EXCEPT !.error = "IndexError"] \* data[1]
            ELSE LET code == data[2]
                     arg == Slice(data, 2)
                 IN IF code = Ord("2") THEN handle_speed(arg)
                    ELSE IF code = Ord("3") THEN handle_tone(arg)
                    ELSE IF code = Ord("4") THEN [Cur EXCEPT !.port = WinKeyer_abort.port]
                    ELSE IF code = Ord("7") THEN handle_weighting(arg)
                    ELSE IF code = Ord("a") THEN handle_ptt(arg)
                    ELSE IF code = Ord("c") THEN handle_tune(arg)
                    ELSE IF code = Ord("d") THEN handle_delay(arg)
                    ELSE Cur
       ELSE handle_message(data)

(***************************************************************************)
(* The datagrams the modelled client sends                                 *)
(***************************************************************************)
\* decimal digits of n >= 0
RECURSIVE NatStr(_)
NatStr(n) == IF n < 10 THEN <<DIGIT0 + n>> ELSE NatStr(n \div 10) \o <<DIGIT0 + (n % 10)>>

\* str(n)
Str(n) == IF n < 0 THEN <<MINUS>> \o NatStr(0 - n) ELSE NatStr(n)

\* arguments that int() rejects
NotIntegers == {<<>>, <<Ord("x")>>}

SpeedArgs == {Str(n) : n \in {0 - 3, 0 - 2, 0, 1, 6, 20, 97, 150}} \cup NotIntegers
ToneArgs == {Str(n) : n \in {0, 450, 800}} \cup NotIntegers
WeightingArgs == {Str(n) : n \in {0 - 51, 0 - 50, 0 - 13, 0, 50, 51}} \cup NotIntegers
PttArgs == {<<Ord("0")>>, <<Ord("1")>>, <<Ord("2")>>, <<>>}
TuneArgs == {Str(n) : n \in {0 - 1, 0, 5, 11, 99, 100}} \cup NotIntegers
DelayArgs == {Str(n) : n \in {0 - 5, 0, 5}} \cup NotIntegers
OtherCodes == {Ord(c) : c \in {"0", "1", "5", "6", "8", "9", "b", "e", "f", "g", "h", "z"}}
\* arguments for them: none, a word, and what ESC a and ESC 2 would act on
OtherArgs == NotIntegers \cup {<<Ord("1")>>, Str(20)}

TextAlphabet == {PLUS, MINUS, Ord("e"), Ord("*")}

RECURSIVE SeqsUpTo(_, _)
SeqsUpTo(S, n) ==
    IF n = 0 THEN {<<>>}
    ELSE LET shorter == SeqsUpTo(S, n - 1)
         IN shorter \cup {Append(t, c) : t \in {u \in shorter : Len(u) = n - 1}, c \in S}

TextFrames == SeqsUpTo(TextAlphabet, MaxLen) \ {<<>>}

\* the text messages of the full session
SampleTexts ==
    {<<Ord("e"), PLUS>>, <<MINUS, Ord("T")>>, <<PLUS, MINUS>>, <<Ord("*")>>,
     <<Ord("e"), SPACE, LF>>, <<Ord("T"), NUL, PLUS>>}

\* what some clients append to a frame (see the NOTE in handle)
Garbage == {<<>>, <<NUL, Ord("1")>>}

\* the server before its first datagram
ServerInit == [socket |-> <<>>, arrived |-> <<>>, handlers |-> <<>>, stream |-> <<>>,
               log |-> <<>>]

(***************************************************************************)
(* The daemon                                                              *)
(***************************************************************************)
\* main with only --device given: the globals of lines 741-743, the WinKeyer
\* constructor and set_sidetone_enable(args.sidetone_on)
Init ==
    /\ state_delay = 0
    /\ state_ptt = FALSE
    /\ state_speed = 0
    /\ winkeyer = [corrected |-> FALSE, sidetone_enable |-> FALSE,
                   key1_enable |-> TRUE, key2_enable |-> FALSE,
                   ptt_enable |-> FALSE, ultimatic_priority |-> "normal",
                   hang_time |-> 1, lead_time |-> 0, tail_time |-> 0]
    /\ request = <<>>
    /\ port = <<>>
    /\ error = "none"
    /\ wk_ptt = FALSE
    /\ served = 0
    /\ call = [method |-> "set_sidetone_enable", arg |-> FALSE]
    /\ server = ServerInit

\* what the bytes of one handle() call do to the keyer's PTT line: the two
\* bytes assert_ptt writes are the only write that starts with 0x18
ptt_line(line, bytes) ==
    IF Len(bytes) = 2 /\ bytes[1] = 24 THEN bytes[2] = 1 ELSE line

\* the UDPServer hands one datagram to handle(); an exception is reported by
\* socketserver's handle_error and the server goes on to the next datagram
Receive(data) ==
    \E r \in {handle(data)} :
       /\ request' = data
       /\ state_speed' = r.speed
       /\ state_ptt' = r.ptt
       /\ state_delay' = r.delay
       /\ winkeyer' = r.winkeyer
       /\ port' = r.port
       /\ error' = r.error
       /\ wk_ptt' = ptt_line(wk_ptt, r.port)
       /\ served' = (served + 1) % 2
       /\ call' = call
       /\ server' = server

Escape(code, arg, tail) == <<ESC, code>> \o arg \o tail

SetSpeed == \E a \in SpeedArgs, g \in Garbage : Receive(Escape(Ord("2"), a, g))
SetTone == \E a \in ToneArgs, g \in Garbage : Receive(Escape(Ord("3"), a, g))
Abort == \E g \in Garbage : Receive(Escape(Ord("4"), <<>>, g))
SetWeighting == \E a \in WeightingArgs, g \in Garbage : Receive(Escape(Ord("7"), a, g))
PttKeying == \E a \in PttArgs, g \in Garbage : Receive(Escape(Ord("a"), a, g))
Tune == \E a \in TuneArgs, g \in Garbage : Receive(Escape(Ord("c"), a, g))
SetDelay == \E a \in DelayArgs, g \in Garbage : Receive(Escape(Ord("d"), a, g))
NotImplemented == \E c \in OtherCodes, a \in OtherArgs : Receive(Escape(c, a, <<>>))
Malformed == \E d \in {<<>>, <<ESC>>, <<NUL>>, <<ESC, NUL>>} : Receive(d)
Message == \E d \in SampleTexts : Receive(d)
AnyMessage == \E d \in TextFrames : Receive(d)

Next ==
    \/ SetSpeed
    \/ SetTone
    \/ Abort
    \/ SetWeighting
    \/ PttKeying
    \/ Tune
    \/ SetDelay
    \/ NotImplemented
    \/ Malformed
    \/ Message

Spec == Init /\ [][Next]_vars

\* a client that only sets the speed and sends text, every text up to MaxLen
TextNext ==
    \/ SetSpeed
    \/ AnyMessage

SpecText == Init /\ [][TextNext]_vars

(***************************************************************************)
(* The WinKeyer class on its own: main, or any other program that imports  *)
(* the module, constructs the keyer and calls its methods                  *)
(***************************************************************************)
\* WinKeyer(device, corrected=corrected): the fields __init__ assigns, and
\* the bytes of host_close, host_open and _set_pinconfig, for a keyer that
\* answers host_open with a supported version
WinKeyer_init(corrected) ==
    LET self == [corrected |-> corrected, sidetone_enable |-> TRUE,
                 key1_enable |-> TRUE, key2_enable |-> FALSE,
                 ptt_enable |-> FALSE, ultimatic_priority |-> "normal",
                 hang_time |-> 1, lead_time |-> 0, tail_time |-> 0]
    IN [self |-> self,
        port |-> Encode(<<0, 3>>) \o Encode(<<0, 2>>)
                 \o WinKeyer_set_pinconfig(self, <<>>).port,
        error |-> "none"]

\* the keyer just constructed, before any datagram is served
KeyerInit ==
    \E corrected \in BOOLEAN :
       /\ state_delay = 0
       /\ state_ptt = FALSE
       /\ state_speed = 0
       /\ winkeyer = WinKeyer_init(corrected).self
       /\ request = <<>>
       /\ port = WinKeyer_init(corrected).port
       /\ error = "none"
       /\ wk_ptt = FALSE
       /\ served = 0
       /\ call = [method |-> "__init__", arg |-> corrected]
       /\ server = ServerInit

\* one call of a keyer method from outside handle(): r is what it yields
KeyerCall(method, arg, self, r) ==
    /\ call' = [method |-> method, arg |-> arg]
    /\ winkeyer' = self
    /\ port' = r.port
    /\ error' = r.error
    /\ served' = (served + 1) % 2
    /\ UNCHANGED <<state_speed, state_ptt, state_delay, request, wk_ptt, server>>

\* the frequencies asked for: everything around the table, and one far above
Freqs == ((0 - 2)..MaxFreq) \cup {10000}

\* winkeyer.set_sidetone_frequency(frequency), as main does for --sidetone:
\* once, on the keyer it has just constructed
SetSidetoneFrequency ==
    \E frequency \in Freqs :
       /\ call.method = "__init__"
       /\ KeyerCall("set_sidetone_frequency", frequency, winkeyer,
                    WinKeyer_set_sidetone_frequency(frequency))

SpecSidetone == KeyerInit /\ [][SetSidetoneFrequency]_vars

\* a call of one of the six setters of the pin-config register
PinconfigCall(method, arg, r) == KeyerCall(method, arg, r.self, r)

SetKey1Enable ==
    \E enable \in BOOLEAN :
       PinconfigCall("set_key1_enable", enable, WinKeyer_set_key1_enable(winkeyer, enable))

SetKey2Enable ==
    \E enable \in BOOLEAN :
       PinconfigCall("set_key2_enable", enable, WinKeyer_set_key2_enable(winkeyer, enable))

\* "both" is a priority the keyer does not have
SetUltimaticPriority ==
    \E p \in WK_ULTIMATIC_PRIORITIES \cup {"both"} :
       PinconfigCall("set_ultimatic_priority", p,
                     WinKeyer_set_ultimatic_priority(winkeyer, p))

\* 3 is a hang time the keyer does not have
SetHangTime ==
    \E h \in WK_HANG_TIMES \cup {3} :
       PinconfigCall("set_hang_time", h, WinKeyer_set_hang_time(winkeyer, h))

SetPttEnable ==
    \E enable \in BOOLEAN :
       PinconfigCall("set_ptt_enable", enable, WinKeyer_set_ptt_enable(winkeyer, enable))

SetSidetoneEnable ==
    \E enable \in BOOLEAN :
       PinconfigCall("set_sidetone_enable", enable,
                     WinKeyer_set_sidetone_enable(winkeyer, enable))

PinconfigNext ==
    \/ SetKey1Enable
    \/ SetKey2Enable
    \/ SetUltimaticPriority
    \/ SetHangTime
    \/ SetPttEnable
    \/ SetSidetoneEnable

SpecPinconfig == KeyerInit /\ [][PinconfigNext]_vars

\* every weighting from just below cwdaemon's range to just above it
WeightingRange == (0 - 52)..52

\* a client that only sets the weighting
SetAnyWeighting ==
    \E v \in WeightingRange : Receive(Escape(Ord("7"), Str(v), <<>>))

SpecWeighting == Init /\ [][SetAnyWeighting]_vars

\* the characters cwdaemon uses for prosigns, a letter and the space
ProsignAlphabet ==
    {Ord(c) : c \in {"*", "=", "<", "(", "!", "&", ">", "C"}} \cup {SPACE}

\* "CQ * DE"
CQ_DE == <<Ord("C"), Ord("Q"), SPACE, Ord("*"), SPACE, Ord("D"), Ord("E")>>

ProsignFrames == (SeqsUpTo(ProsignAlphabet, MaxProsignLen) \ {<<>>}) \cup {CQ_DE}

\* a client that only sends text with prosigns
ProsignMessage == \E d \in ProsignFrames : Receive(d)

SpecProsign == Init /\ [][ProsignMessage]_vars

\* a letter, the plain space and the five other characters of string.whitespace
StripAlphabet == {Ord("T"), SPACE, TAB, LF, VT, FF, CR}

\* longer texts: whitespace inside, a space before the trailing run, a
\* trailing run of all five
StripSamples ==
    {<<Ord("T"), TAB, Ord("T"), SPACE, LF, CR>>,
     <<Ord("T"), SPACE, SPACE, TAB>>,
     <<SPACE, Ord("T"), TAB, LF, VT, FF, CR>>}

StripFrames == (SeqsUpTo(StripAlphabet, MaxStripLen) \ {<<>>}) \cup StripSamples

\* a client that only sends text with whitespace in it
StripMessage == \E d \in StripFrames : Receive(d)

SpecStrip == Init /\ [][StripMessage]_vars

\* speeds from which a + or a - or two lead to the code of a prosign
\* character or of + or -: 33 ! 38 & 40 ( 42 * 43 + 45 - 60 < 61 = 62 >
OrderSpeeds == {31, 36, 41, 47, 58, 59}

SetOrderSpeed == \E v \in OrderSpeeds : Receive(Escape(Ord("2"), Str(v), <<>>))

\* every text of controls and a prosign up to MaxLen, and two with a letter
OrderFrames ==
    (SeqsUpTo({PLUS, MINUS, Ord("*")}, MaxLen) \ {<<>>})
    \cup {<<Ord("e"), PLUS>>, <<MINUS, Ord("e"), Ord("*")>>}

OrderMessage == \E d \in OrderFrames : Receive(d)

\* a client that sets such a speed and sends these texts
OrderNext ==
    \/ SetOrderSpeed
    \/ OrderMessage

SpecOrder == Init /\ [][OrderNext]_vars

\* ESC 3 frames that ask for the sidetone off and on
ToggleSidetone == \E a \in {Str(0), Str(800)} : Receive(Escape(Ord("3"), a, <<>>))

\* the setters of the pin-config register and ESC 3 frames, in any order
PinconfigToneNext ==
    \/ PinconfigNext
    \/ ToggleSidetone

SpecPinconfigTone == KeyerInit /\ [][PinconfigToneNext]_vars

(***************************************************************************)
(* main's two extension options                                            *)
(***************************************************************************)
\* the values given to --key_compensation and --first_extension
Extensions == (0 - 1)..251

\* one option of main acted on: the keyer method it calls, with what
OptionCall(option, method, arg, r) ==
    /\ call' = [method |-> method, arg |-> arg, option |-> option]
    /\ port' = r.port
    /\ error' = r.error
    /\ served' = (served + 1) % 2
    /\ UNCHANGED <<state_speed, state_ptt, state_delay, winkeyer, request, wk_ptt,
                   server>>

\* lines 791-792: if args.key_compensation is not None
KeyCompensationOption ==
    \E n \in Extensions :
       /\ call.method = "__init__"
       /\ OptionCall("--key_compensation", "set_first_extension", n,
                     WinKeyer_set_first_extension(n))

\* lines 793-794: if args.first_extension is not None; reached whether or
\* not --key_compensation was given, unless that call raised
FirstExtensionOption ==
    \E n \in Extensions :
       /\ \/ call.method = "__init__"
          \/ call.method = "set_first_extension"
             /\ call.option = "--key_compensation" /\ error = "none"
       /\ OptionCall("--first_extension", "set_first_extension", n,
                     WinKeyer_set_first_extension(n))

StartupNext ==
    \/ KeyCompensationOption
    \/ FirstExtensionOption

SpecStartup == KeyerInit /\ [][StartupNext]_vars

(***************************************************************************)
(* The server followed a datagram and a byte at a time                     *)
(***************************************************************************)
\* the datagrams of this client: commands and a text that write two or
\* three bytes each, and one that writes nothing
ServerFrames ==
    {Escape(Ord("2"), Str(20), <<>>), Escape(Ord("c"), Str(5), <<>>),
     <<Ord("e"), PLUS>>, Escape(Ord("h"), <<>>, <<>>)}

\* a datagram reaches the socket's receive buffer
Arrive ==
    \E d \in ServerFrames :
       /\ Len(server.arrived) < MaxFrames
       /\ server' = [server EXCEPT !.socket = Append(@, d), !.arrived = Append(@, d)]
       /\ UNCHANGED <<state_speed, state_ptt, state_delay, winkeyer, request, port,
                      error, wk_ptt, served, call>>

\* socketserver.UDPServer.process_request calls finish_request itself, so
\* serve_forever is back at its select() only when handle() has returned
\* (a ThreadingUDPServer would hand the datagram to a new thread)
ServerIdle_threading == TRUE

ServerIdle == server.handlers = <<>>

\* serve_forever reads the oldest datagram and runs handle() on it
Serve ==
    /\ ServerIdle
    /\ server.socket # <<>>
    /\ \E r \in {handle(Head(server.socket))} :
          /\ request' = Head(server.socket)
          /\ state_speed' = r.speed
          /\ state_ptt' = r.ptt
          /\ state_delay' = r.delay
          /\ winkeyer' = r.winkeyer
          /\ port' = r.port
          /\ error' = r.error
          /\ wk_ptt' = ptt_line(wk_ptt, r.port)
          /\ served' = (served + 1) % 2
          /\ call' = call
          /\ server' = [server EXCEPT
                           !.socket = Tail(@),
                           !.handlers = IF r.port = <<>> THEN @ ELSE Append(@, r.port),
                           !.log = Append(@, [request |-> Head(server.socket),
                                              port |-> r.port])]

\* s without its i-th element
Without(s, i) == SubSeq(s, 1, i - 1) \o SubSeq(s, i + 1, Len(s))

\* a running handle() gets its next byte onto the serial line
WriteByte ==
    \E i \in DOMAIN server.handlers :
       /\ server' = [server EXCEPT
                        !.stream = Append(@, Head(server.handlers[i])),
                        !.handlers = IF Len(server.handlers[i]) = 1
                                     THEN Without(@, i)
                                     ELSE [@ EXCEPT ![i] = Tail(@)]]
       /\ UNCHANGED <<state_speed, state_ptt, state_delay, winkeyer, request, port,
                      error, wk_ptt, served, call>>

ServerNext ==
    \/ Arrive
    \/ Serve
    \/ WriteByte

SpecServer == Init /\ [][ServerNext]_vars

(***************************************************************************)
(* Properties                                                              *)
(***************************************************************************)
\* the frame as the handler sees it, its command code and its argument
IsEscape(req, c) ==
    LET data == truncate(req) IN Len(data) >= 2 /\ data[1] = ESC /\ data[2] = Ord(c)

IsText(req) == LET data == truncate(req) IN Len(data) >= 1 /\ data[1] # ESC

Arg(req) == Slice(truncate(req), 2)

IsInt(req) == ParseInt(Arg(req)).ok

IntArg(req) == ParseInt(Arg(req)).val

SessionState == <<state_speed, state_ptt, state_delay>>

PTT_ON == <<24, 1>>
PTT_OFF == <<24, 0>>

FramePttOn == <<ESC, Ord("a"), Ord("1")>>
FramePttOff == <<ESC, Ord("a"), Ord("0")>>

\* C1: with delay 0 and PTT not asserted, ESC a 1 writes 0x18 0x01 and sets
\* state_ptt; an ESC a 1 right after it writes nothing and leaves state_ptt
\* set; an ESC a 0 then writes 0x18 0x00 and clears state_ptt.
C1_ManualPttOnOnOff ==
    [][ /\ (state_delay = 0 /\ ~state_ptt /\ request' = FramePttOn)
           => (port' = PTT_ON /\ state_ptt')
        /\ (request = FramePttOn /\ port = PTT_ON /\ request' = FramePttOn)
           => (port' = <<>> /\ state_ptt')
        /\ (state_delay = 0 /\ state_ptt /\ request' = FramePttOff)
           => (port' = PTT_OFF /\ ~state_ptt')
      ]_vars

\* C1 witness: the ESC a 0 that ends the sequence has released PTT
C1_Witness ==
    request = FramePttOff /\ port = PTT_OFF /\ ~state_ptt /\ state_delay = 0

\* C2: while state_delay is not 0, ESC a 0 and ESC a 1 write nothing and
\* leave state_ptt as it was.
C2_NonzeroDelayRejectsPtt ==
    [][ (state_delay # 0 /\ IsEscape(request', "a")
         /\ Arg(request') \in {<<Ord("0")>>, <<Ord("1")>>})
        => (port' = <<>> /\ state_ptt' = state_ptt)
      ]_vars

C4_SpeedInRange == state_speed \in 0..99

\* an escape command whose integer argument is outside the command's range
OutOfRange(req) ==
    /\ IsInt(req)
    /\ \/ IsEscape(req, "2") /\ IntArg(req) \notin 0..99
       \/ IsEscape(req, "7") /\ IntArg(req) \notin (0 - 50)..50
       \/ IsEscape(req, "c") /\ IntArg(req) \notin 0..99

\* C5: ESC 2, ESC 7 and ESC c with an out-of-range argument write nothing
\* and leave speed, ptt and delay as they were.
C5_OutOfRangeNoSideEffect ==
    [][ OutOfRange(request') => (port' = <<>> /\ SessionState' = SessionState) ]_vars

\* bit n of byte b
Bit(b, n) == (b \div ShiftLeft(1, n)) % 2

\* C6: ESC 3 with argument 0 writes the pin-config register with the
\* sidetone bit cleared; with a nonzero argument it writes 0x01 and the
\* quantized frequency code, then the pin-config register with the bit set.
C6_ToneFrame ==
    [][ (IsEscape(request', "3") /\ IsInt(request'))
        => IF IntArg(request') = 0
           THEN Len(port') = 2 /\ port'[1] = 9 /\ Bit(port'[2], 1) = 0
           ELSE /\ Len(port') = 4
                /\ port'[1] = 1 /\ port'[2] = wk_sidetone_code(IntArg(request'))
                /\ port'[3] = 9 /\ Bit(port'[4], 1) = 1
      ]_vars

\* the text the speed-control step receives: the payload after NUL truncation,
\* trailing-whitespace strip and prosign expansion
Payload(req) == strip_and_expand(truncate(req))

Min(a, b) == IF a < b THEN a ELSE b
Max(a, b) == IF a > b THEN a ELSE b

\* the working speed after a control character, as the specification words it
Stepped(c, w) == IF c = PLUS THEN Min(w + 2, MAX_SPEED) ELSE Max(w - 2, MIN_SPEED)

\* the working speeds a left-to-right scan of str announces, starting from w
RECURSIVE WorkingSpeeds(_, _)
WorkingSpeeds(str, w) ==
    IF str = <<>> THEN <<>>
    ELSE IF str[1] \in {PLUS, MINUS} /\ w # 0
    THEN <<Stepped(str[1], w)>> \o WorkingSpeeds(Tail(str), Stepped(str[1], w))
    ELSE WorkingSpeeds(Tail(str), w)

\* the byte that follows each 0x1C of a byte stream (-1 where none follows)
RECURSIVE SpeedBytes(_)
SpeedBytes(bytes) ==
    IF bytes = <<>> THEN <<>>
    ELSE IF bytes[1] = BUFFERED_SPEED_CHANGE
    THEN IF Len(bytes) >= 2
         THEN <<bytes[2]>> \o SpeedBytes(SubSeq(bytes, 3, Len(bytes)))
         ELSE <<0 - 1>>
    ELSE SpeedBytes(Tail(bytes))

\* C7: in the bytes written for a text message, every 0x1C is followed by
\* one byte whose value is the working speed at that point of the scan.
\* Stated for the speeds 0..99 the session is documented to hold.
C7_SpeedByteIsWorkingSpeed ==
    [][ (IsText(request') /\ state_speed \in 0..99)
        => SpeedBytes(port') = WorkingSpeeds(Payload(request'), state_speed)
      ]_vars

\* str with every + and - replaced by 0x1C and the new working speed
RECURSIVE Replaced(_, _)
Replaced(str, w) ==
    IF str = <<>> THEN <<>>
    ELSE IF str[1] \in {PLUS, MINUS}
    THEN <<BUFFERED_SPEED_CHANGE, Stepped(str[1], w)>>
         \o Replaced(Tail(str), Stepped(str[1], w))
    ELSE <<str[1]>> \o Replaced(Tail(str), w)

\* C8: with a nonzero session speed s, the speed-control step replaces each
\* + by 0x1C min(w+2, 99) and each - by 0x1C max(w-2, 5), keeps every other
\* character in place and appends exactly one 0x1E; a text without + or -
\* comes out as it went in.
C8_SpeedControlExpansion ==
    [][ (IsText(request') /\ state_speed # 0)
        => speed_controls(Payload(request'), state_speed)
           = [data |-> IF HasSpeedControl(Payload(request'))
                       THEN Replaced(Payload(request'), state_speed)
                            \o <<CANCEL_BUFFERED_SPEED_CHANGE>>
                       ELSE Payload(request'),
              ok |-> TRUE]
      ]_vars

NotSpeedControl(c) == c \notin {PLUS, MINUS}

\* C9 as claimed: with state_speed = 0 a text with + or - goes to the keyer
\* with all its characters, the + and - included (after the strip, prosign
\* and upper-casing every message gets).
C9_ZeroSpeedLiteral ==
    [][ (IsText(request') /\ state_speed = 0 /\ HasSpeedControl(Payload(request')))
        => port' = Encode(Upper(Payload(request')))
      ]_vars

\* C9 amended: with state_speed = 0 a text with + or - goes to the keyer
\* with its + and - characters removed; the other characters are sent in
\* order and no 0x1C or 0x1E is inserted.
C9_ZeroSpeedControlsDropped ==
    [][ (IsText(request') /\ state_speed = 0 /\ HasSpeedControl(Payload(request')))
        => /\ port' = Encode(Upper(SelectSeq(Payload(request'), NotSpeedControl)))
           /\ \A i \in 1..Len(port') :
                 port'[i] \notin {BUFFERED_SPEED_CHANGE, CANCEL_BUFFERED_SPEED_CHANGE}
           /\ error' = "none"
      ]_vars

\* C9 witness: a text holding a letter and a + was sent while the speed was 0
C9_Witness ==
    /\ state_speed = 0
    /\ request = <<Ord("e"), PLUS>>
    /\ port = <<69>>
    /\ error = "none"

\* C10: a text message leaves speed, ptt and delay as they were, and the
\* only frames that change any of them are ESC 2, ESC a and ESC d.
C10_TextLeavesSessionState ==
    [][ /\ IsText(request') => SessionState' = SessionState
        /\ SessionState' # SessionState
           => (IsEscape(request', "2") \/ IsEscape(request', "a")
               \/ IsEscape(request', "d"))
      ]_vars

\* C10 witness: a text with a + was expanded at speed 20 and sent, and the
\* session speed is still 20
C10_Witness ==
    /\ request = <<Ord("e"), PLUS>>
    /\ port = <<69, BUFFERED_SPEED_CHANGE, 22, CANCEL_BUFFERED_SPEED_CHANGE>>
    /\ state_speed = 20

SET_SPEED == 2

\* C11: an ESC 2 frame with v in 0..99 sets state_speed to v and writes
\* exactly 0x02 v; when the frame before it was the same frame, the write is
\* the same write again and state_speed is what it was.
C11_SetSpeedIdempotent ==
    [][ (IsEscape(request', "2") /\ IsInt(request') /\ IntArg(request') \in 0..99)
        => /\ state_speed' = IntArg(request')
           /\ port' = <<SET_SPEED, IntArg(request')>>
           /\ error' = "none"
           /\ (request = request' /\ error = "none")
              => (port' = port /\ state_speed' = state_speed)
      ]_vars

\* C11 witness: ESC 2 "20" was served with the speed already 20
C11_Witness ==
    /\ request = Escape(Ord("2"), Str(20), <<>>)
    /\ port = <<SET_SPEED, 20>>
    /\ state_speed = 20
    /\ served = 0

SET_SIDETONE == 1

\* the supported sidetone frequencies, as the specification lists them
SupportedFrequencies == {400, 444, 500, 571, 666, 800, 1000, 1333, 2000, 4000}

\* set_sidetone_frequency was the last call and wrote its two bytes
SidetoneCalled ==
    /\ call.method = "set_sidetone_frequency"
    /\ Len(port) = 2
    /\ port[1] = SET_SIDETONE

\* the supported frequency the written code stands for (0 if it is no code)
WrittenFrequency ==
    IF \E f \in SupportedFrequencies : WK_SIDETONE_CODES[f] = port[2]
    THEN CHOOSE f \in SupportedFrequencies : WK_SIDETONE_CODES[f] = port[2]
    ELSE 0

\* lo and hi are adjacent supported frequencies
Adjacent(lo, hi) ==
    /\ lo \in SupportedFrequencies
    /\ hi \in SupportedFrequencies
    /\ lo < hi
    /\ ~\E f \in SupportedFrequencies : lo < f /\ f < hi

\* freq is exactly midway between lo and hi
Midway(freq, lo, hi) == Adjacent(lo, hi) /\ 2 * freq = lo + hi

\* C12 as claimed: a frequency midway between two adjacent supported
\* frequencies is given the code of the lower one.
C12_TieToLower ==
    \A lo, hi \in SupportedFrequencies :
       (call.method = "set_sidetone_frequency" /\ Midway(call.arg, lo, hi))
       => (SidetoneCalled /\ WrittenFrequency = lo)

\* C12 amended: a frequency midway between two adjacent supported
\* frequencies is given the code of the higher one (the lower one is chosen
\* only when it is strictly closer).
C12_TieToHigher ==
    \A lo, hi \in SupportedFrequencies :
       (call.method = "set_sidetone_frequency" /\ Midway(call.arg, lo, hi))
       => (SidetoneCalled /\ WrittenFrequency = hi)

\* C12 witness: 900, midway between 800 and 1000, was given the code of 1000
C12_Witness ==
    /\ call.method = "set_sidetone_frequency"
    /\ call.arg = 900
    /\ Midway(900, 800, 1000)
    /\ port = <<SET_SIDETONE, 4>>

\* |a - b|
Distance(a, b) == IF a < b THEN b - a ELSE a - b

\* C13: the code written for a frequency is the code of a supported
\* frequency that no other supported frequency is closer to it than; at or
\* below 400 it is the code of 400, at or above 4000 the code of 4000.
C13_NearestSupported ==
    call.method = "set_sidetone_frequency"
    => /\ SidetoneCalled
       /\ error = "none"
       /\ WrittenFrequency \in SupportedFrequencies
       /\ \A f \in SupportedFrequencies :
             Distance(call.arg, WrittenFrequency) <= Distance(call.arg, f)
       /\ call.arg <= 400 => WrittenFrequency = 400
       /\ call.arg >= 4000 => WrittenFrequency = 4000
       /\ call.arg = 450 => WrittenFrequency = 444
       /\ call.arg = 399 => WrittenFrequency = 400
       /\ call.arg = 10000 => WrittenFrequency = 4000

\* C13 witness: 450 was given 0x09, the code of 444
C13_Witness ==
    /\ call.method = "set_sidetone_frequency"
    /\ call.arg = 450
    /\ port = <<SET_SIDETONE, 9>>
    /\ WrittenFrequency = 444

SET_PINCONFIG == 9

PinconfigSetters ==
    {"set_key1_enable", "set_key2_enable", "set_ultimatic_priority",
     "set_hang_time", "set_ptt_enable", "set_sidetone_enable"}

\* the last call was a pin-config setter that wrote the register
PinconfigWritten ==
    /\ call.method \in PinconfigSetters
    /\ error = "none"
    /\ Len(port) \in {2, 3}
    /\ port[1] = SET_PINCONFIG

\* the register value: the character that follows 0x09, which the port
\* carries as one byte below 128 and as two bytes from 128 on
PinconfigChar ==
    IF Len(port) = 2 THEN port[2] ELSE (port[2] - 192) * 64 + (port[3] - 128)

\* bits lo and lo + 1 of byte b
Bits2(b, lo) == (b \div ShiftLeft(1, lo)) % 4

\* what C14 says of the bits other than the key bits
OtherBitsAsClaimed(data) ==
    /\ Bit(data, 1) = BoolInt(winkeyer.sidetone_enable)
    /\ Bit(data, 0) = BoolInt(winkeyer.ptt_enable)
    /\ Bits2(data, 4) = WK_HANG_TIME_CODES[winkeyer.hang_time]
    /\ Bits2(data, 6) = WK_ULTIMATIC_PRIORITY_CODES[winkeyer.ultimatic_priority]

\* C14 as claimed: key2-enable is bit 2 when not corrected and bit 3 when
\* corrected, key1-enable the other of the two; sidetone-enable is bit 1,
\* ptt-enable bit 0, the hang-time code bits 4-5, the priority code bits 6-7.
C14_Key2AtBit2Uncorrected ==
    PinconfigWritten
    => /\ Bit(PinconfigChar, IF winkeyer.corrected THEN 3 ELSE 2)
          = BoolInt(winkeyer.key2_enable)
       /\ Bit(PinconfigChar, IF winkeyer.corrected THEN 2 ELSE 3)
          = BoolInt(winkeyer.key1_enable)
       /\ OtherBitsAsClaimed(PinconfigChar)

\* C14 amended: key1-enable is bit 2 when not corrected and bit 3 when
\* corrected, key2-enable the other of the two; sidetone-enable is bit 1,
\* ptt-enable bit 0, the hang-time code bits 4-5, the priority code bits 6-7.
C14_Key1AtBit2Uncorrected ==
    PinconfigWritten
    => /\ PinconfigChar = pinconfig_data(winkeyer)
       /\ Bit(PinconfigChar, IF winkeyer.corrected THEN 3 ELSE 2)
          = BoolInt(winkeyer.key1_enable)
       /\ Bit(PinconfigChar, IF winkeyer.corrected THEN 2 ELSE 3)
          = BoolInt(winkeyer.key2_enable)
       /\ OtherBitsAsClaimed(PinconfigChar)

\* C14 witness: an uncorrected keyer with key1 on and key2 off wrote a
\* register value whose bit 2 is set and whose bit 3 is clear
C14_Witness ==
    /\ PinconfigWritten
    /\ ~winkeyer.corrected
    /\ winkeyer.key1_enable /\ ~winkeyer.key2_enable
    /\ Bit(PinconfigChar, 2) = 1 /\ Bit(PinconfigChar, 3) = 0

\* the fields a register value stands for under one mapping of the key bits
DecodePinconfig(data, corrected) ==
    [key1_enable |-> Bit(data, WK_PINCONFIG_KEY_BITS[corrected][1]) = 1,
     key2_enable |-> Bit(data, WK_PINCONFIG_KEY_BITS[corrected][2]) = 1,
     sidetone_enable |-> Bit(data, 1) = 1,
     ptt_enable |-> Bit(data, 0) = 1,
     hang_time |-> CHOOSE h \in WK_HANG_TIMES : WK_HANG_TIME_CODES[h] = Bits2(data, 4),
     ultimatic_priority |->
        IF \E p \in WK_ULTIMATIC_PRIORITIES :
              WK_ULTIMATIC_PRIORITY_CODES[p] = Bits2(data, 6)
        THEN CHOOSE p \in WK_ULTIMATIC_PRIORITIES :
                WK_ULTIMATIC_PRIORITY_CODES[p] = Bits2(data, 6)
        ELSE "none"]

\* the six fields of the keyer that go into the register
PinconfigFields ==
    [f \in {"key1_enable", "key2_enable", "sidetone_enable", "ptt_enable",
            "hang_time", "ultimatic_priority"} |-> winkeyer[f]]

\* C15: under either mapping key1 and key2 have two distinct bits, the bits
\* of one mapping being those of the other exchanged, and the register value
\* written decodes, under the keyer's mapping, to the six fields it was
\* made from.
C15_PinconfigDecodable ==
    /\ \A c \in BOOLEAN :
          /\ WK_PINCONFIG_KEY_BITS[c][1] # WK_PINCONFIG_KEY_BITS[c][2]
          /\ WK_PINCONFIG_KEY_BITS[c][1] = WK_PINCONFIG_KEY_BITS[~c][2]
    /\ PinconfigWritten
       => DecodePinconfig(PinconfigChar, winkeyer.corrected) = PinconfigFields

\* C15 witness: a corrected keyer with key2 on, key1 off, automatic PTT on,
\* priority "dahs" and hang time 4 wrote its register
C15_Witness ==
    /\ PinconfigWritten
    /\ winkeyer.corrected
    /\ winkeyer.key2_enable /\ ~winkeyer.key1_enable /\ winkeyer.ptt_enable
    /\ winkeyer.ultimatic_priority = "dahs"
    /\ winkeyer.hang_time = 4
    /\ DecodePinconfig(PinconfigChar, TRUE) = PinconfigFields

SET_WEIGHTING == 3

\* an ESC 7 frame with v in -50..50 was served
WeightingFrame ==
    IsEscape(request, "7") /\ IsInt(request) /\ IntArg(request) \in (0 - 50)..50

\* num / den (den > 0) rounded to the nearest integer (a half goes up)
Round(num, den) == (2 * num + den) \div (2 * den)

\* |n|
Abs(n) == IF n < 0 THEN 0 - n ELSE n

\* C16 as claimed: the weighting written for v in -50..50 is
\* round(v * (90 - 10) / (50 - (-50))) + 50.
C16_WeightingRounded ==
    WeightingFrame
    => port = <<SET_WEIGHTING, Round(IntArg(request) * (90 - 10), 50 + 50) + 50>>

\* C16 amended: the weighting written for v in -50..50 is 50 + t, where t is
\* v * (90 - 10) / (50 - (-50)) with its fraction dropped (truncated toward
\* zero): t has the sign of v and |t| <= |0.8 v| < |t| + 1.
C16_WeightingTruncated ==
    WeightingFrame
    => /\ Len(port) = 2
       /\ port[1] = SET_WEIGHTING
       /\ port[2] = winkeyer_weighting(IntArg(request))
       /\ (port[2] - 50) * IntArg(request) >= 0
       /\ 100 * Abs(port[2] - 50) <= 80 * Abs(IntArg(request))
       /\ 80 * Abs(IntArg(request)) < 100 * (Abs(port[2] - 50) + 1)

\* C16 witness: v = 2 was given 51 (0.8 * 2 = 1.6 truncated), not 52
C16_Witness ==
    /\ WeightingFrame
    /\ IntArg(request) = 2
    /\ port = <<SET_WEIGHTING, 51>>

\* C17: an ESC 7 frame with v in -50..50 writes exactly 0x03 w with
\* w = winkeyer_weighting(v) in 10..90; -50 gives 10, 0 gives 50, 50 gives
\* 90, and w does not decrease as v grows.
C17_WeightingFrame ==
    /\ \A a, b \in (0 - 50)..50 :
          a <= b => winkeyer_weighting(a) <= winkeyer_weighting(b)
    /\ WeightingFrame
       => /\ port = <<SET_WEIGHTING, winkeyer_weighting(IntArg(request))>>
          /\ winkeyer_weighting(IntArg(request)) \in 10..90
          /\ error = "none"
          /\ IntArg(request) = 0 - 50 => port[2] = 10
          /\ IntArg(request) = 0 => port[2] = 50
          /\ IntArg(request) = 50 => port[2] = 90

\* C17 witness: ESC 7 "50" wrote 0x03 90
C17_Witness ==
    /\ WeightingFrame
    /\ IntArg(request) = 50
    /\ port = <<SET_WEIGHTING, 90>>

\* the prosign characters and the letters the specification gives them
ProsignCharacters ==
    <<Ord("*"), Ord("="), Ord("<"), Ord("("), Ord("!"), Ord("&"), Ord(">")>>

ProsignNames ==
    << <<Ord("A"), Ord("R")>>, <<Ord("B"), Ord("T")>>, <<Ord("S"), Ord("K")>>,
       <<Ord("K"), Ord("N")>>, <<Ord("S"), Ord("N")>>, <<Ord("A"), Ord("S")>>,
       <<Ord("B"), Ord("K")>> >>

\* s with every prosign character replaced by 0x1B and its two letters
RECURSIVE WithProsigns(_)
WithProsigns(s) ==
    IF s = <<>> THEN <<>>
    ELSE (IF \E i \in 1..7 : ProsignCharacters[i] = s[1]
          THEN <<27>> \o ProsignNames[CHOOSE i \in 1..7 : ProsignCharacters[i] = s[1]]
          ELSE <<s[1]>>)
         \o WithProsigns(Tail(s))

\* a text of upper-case letters, spaces and prosign characters
PlainProsignText(req) ==
    /\ IsText(req)
    /\ \A i \in 1..Len(req) : req[i] \in ProsignAlphabet \cup {Ord("Q"), Ord("D"), Ord("E")}

\* C18: prosign expansion replaces * = < ( ! & > by 0x1B and AR BT SK KN SN
\* AS BK, and leaves every other character, spaces included, as it is and
\* where it is; "CQ * DE" becomes "CQ \x1BAR DE".  Seen both at the
\* function and in the bytes written for a text that no other step alters.
C18_ProsignExpansion ==
    PlainProsignText(request)
    => /\ expand_cwdaemon_prosigns_for_winkeyer(request) = WithProsigns(request)
       /\ port = WithProsigns(request)
       /\ error = "none"
       /\ request = CQ_DE
          => port = <<Ord("C"), Ord("Q"), SPACE, 27, Ord("A"), Ord("R"), SPACE,
                      Ord("D"), Ord("E")>>

\* C18 witness: "CQ * DE" went to the keyer as "CQ \x1BAR DE"
C18_Witness ==
    /\ request = CQ_DE
    /\ port = <<67, 81, 32, 27, 65, 82, 32, 68, 69>>

\* C19: state_delay is never negative, whatever ESC d frames arrive; an
\* ESC d frame changes only state_delay and writes nothing.
C19_DelayNonNegative ==
    /\ [](state_delay >= 0)
    /\ [][ (IsEscape(request', "d") /\ IsInt(request'))
           => /\ port' = <<>>
              /\ state_speed' = state_speed
              /\ state_ptt' = state_ptt
              /\ winkeyer' = winkeyer
      ]_vars

ABORT == 10
TUNE == 25

\* C20: an ESC c frame with N in 1..99 writes the abort byte 0x0A and then
\* the tune command 0x19 N; with N = 0 it writes nothing; either way speed,
\* ptt and delay stay as they were.
C20_TuneFrame ==
    [][ (IsEscape(request', "c") /\ IsInt(request') /\ IntArg(request') \in 0..99)
        => /\ IF IntArg(request') = 0 THEN port' = <<>>
              ELSE port' = <<ABORT, TUNE, IntArg(request')>>
           /\ error' = "none"
           /\ SessionState' = SessionState
      ]_vars

\* C20 witness: ESC c "11", above cwdaemon's cap of 10, keyed the
\* transmitter for 11 seconds
C20_Witness ==
    /\ request = Escape(Ord("c"), Str(11), <<>>)
    /\ port = <<ABORT, TUNE, 11>>
    /\ error = "none"

\* the codes of the escape commands that handle() acts on
CommandTable == {Ord(c) : c \in {"2", "3", "4", "7", "a", "c", "d"}}

\* an escape frame with a command code that is not one of those
UnimplementedFrame(req) ==
    LET data == truncate(req)
    IN Len(data) >= 2 /\ data[1] = ESC /\ data[2] \notin CommandTable

\* C21: an escape frame whose code is 0, 1, 5, 6, 8, 9, b, e, f, g, h or any
\* other code outside the command table writes nothing and leaves speed,
\* ptt, delay and the keyer's configuration as they were, whatever follows
\* the code.
C21_UnimplementedIgnored ==
    [][ UnimplementedFrame(request')
        => /\ port' = <<>>
           /\ error' = "none"
           /\ SessionState' = SessionState
           /\ winkeyer' = winkeyer
           /\ wk_ptt' = wk_ptt
      ]_vars

\* C21 witness: ESC h "20" arrived with the speed at 6 and PTT asserted, and
\* nothing came of it
C21_Witness ==
    /\ request = Escape(Ord("h"), Str(20), <<>>)
    /\ port = <<>>
    /\ error = "none"
    /\ state_speed = 6
    /\ state_ptt

\* the sequences of a sequence of sequences, joined
RECURSIVE Concat(_)
Concat(ss) == IF ss = <<>> THEN <<>> ELSE Head(ss) \o Concat(Tail(ss))

\* the datagrams handle() was started on, and the bytes each one produced
LogRequests == [i \in DOMAIN server.log |-> server.log[i].request]
LogPorts == [i \in DOMAIN server.log |-> server.log[i].port]

\* C22: datagrams are handled in the order they arrived and one at a time;
\* what the keyer has received, followed by what the running handle() has
\* still to write, is the bytes of every datagram handled so far, whole and
\* in arrival order.
C22_FramesInOrderWhole ==
    /\ LogRequests \o server.socket = server.arrived
    /\ Len(server.handlers) <= 1
    /\ server.stream \o Concat(server.handlers) = Concat(LogPorts)

\* C22 witness: three datagrams arrived before the first was finished, and
\* the keyer received the tune command, then the speed command, then the text
C22_Witness ==
    /\ server.arrived = <<Escape(Ord("c"), Str(5), <<>>), Escape(Ord("2"), Str(20), <<>>),
                           <<Ord("e"), PLUS>>>>
    /\ server.stream = <<10, 25, 5, 2, 20, 69, 28, 22, 30>>
    /\ server.handlers = <<>>

\* req cut off just before its first NUL
RECURSIVE BeforeFirstNul(_)
BeforeFirstNul(req) ==
    IF req = <<>> \/ req[1] = NUL THEN <<>>
    ELSE <<req[1]>> \o BeforeFirstNul(Tail(req))

MalformedFrame(req) ==
    LET data == truncate(req)
    IN \/ data = <<>>
       \/ data = <<ESC>>
       \/ /\ \E c \in {"2", "3", "7", "c", "d"} : IsEscape(req, c)
          /\ ~IsInt(req)

\* C24: a malformed frame is skipped: handle() ends without an exception,
\* writes nothing and leaves speed, ptt and delay as they were.
C24_MalformedSkipped ==
    [][ MalformedFrame(request')
        => /\ error' = "none"
           /\ port' = <<>>
           /\ SessionState' = SessionState
      ]_vars

\* C25: right after construction speed is 0, ptt off, delay 0, sidetone
\* off, key1 enabled, key2 disabled, automatic PTT off, hang time 1, lead
\* and tail time 0, and the pin-config register the constructor wrote says
\* the same.
C25_StartupDefaults ==
    call.method = "__init__"
    => /\ state_speed = 0 /\ ~state_ptt /\ state_delay = 0
       /\ ~winkeyer.sidetone_enable
       /\ winkeyer.key1_enable /\ ~winkeyer.key2_enable
       /\ ~winkeyer.ptt_enable
       /\ winkeyer.hang_time = 1
       /\ winkeyer.lead_time = 0 /\ winkeyer.tail_time = 0
       /\ Len(port) = 6
       /\ port[5] = SET_PINCONFIG
       /\ DecodePinconfig(port[6], winkeyer.corrected)
          = [key1_enable |-> TRUE, key2_enable |-> FALSE, sidetone_enable |-> FALSE,
             ptt_enable |-> FALSE, hang_time |-> 1, ultimatic_priority |-> "normal"]

\* the whitespace characters other than the plain space
NonSpaceWhitespace == {9, 10, 11, 12, 13}

\* a text of the letter T and whitespace, which no step but the strip alters
WhitespaceText(req) ==
    /\ req # <<>>
    /\ \A i \in 1..Len(req) : req[i] \in {Ord("T"), SPACE} \cup NonSpaceWhitespace

\* C26: what reaches the keyer is the text without its trailing run of tab,
\* newline, vertical tab, form feed and carriage return: a prefix of the
\* text, all of what was cut being such characters, and ending (if not
\* empty) in a plain space or a character that is no whitespace.  Every
\* plain space and every character before that point is sent as it is.
C26_TrailingStrip ==
    WhitespaceText(request)
    => /\ error = "none"
       /\ Len(port) <= Len(request)
       /\ port = SubSeq(request, 1, Len(port))
       /\ \A i \in (Len(port) + 1)..Len(request) : request[i] \in NonSpaceWhitespace
       /\ port # <<>> => port[Len(port)] \notin NonSpaceWhitespace
       /\ Len(SelectSeq(port, LAMBDA c : c = SPACE))
          = Len(SelectSeq(request, LAMBDA c : c = SPACE))

\* C26 witness: of "T\tT \n\r" the keyer got "T\tT " - the inner tab and
\* the space before the trailing run kept
C26_Witness ==
    /\ request = <<Ord("T"), TAB, Ord("T"), SPACE, LF, CR>>
    /\ port = <<Ord("T"), TAB, Ord("T"), SPACE>>

\* each - of str, scanned from working speed w, is answered in bytes (the
\* speed bytes of the message, one per control) by a speed no higher than
\* the working speed it met
RECURSIVE MinusNeverRaises(_, _, _)
MinusNeverRaises(str, w, bytes) ==
    IF str = <<>> \/ bytes = <<>> THEN TRUE
    ELSE IF str[1] \in {PLUS, MINUS} /\ w # 0
    THEN /\ str[1] = MINUS => bytes[1] <= w
         /\ MinusNeverRaises(Tail(str), Stepped(str[1], w), Tail(bytes))
    ELSE MinusNeverRaises(Tail(str), w, bytes)

\* C27: whatever frames came before, every byte that follows a 0x1C in the
\* bytes of a text message is a speed in 5..99, and no - yields a speed
\* above the working speed it started from.
C27_SpeedBytesInRange ==
    [][ IsText(request')
        => /\ \A i \in 1..Len(SpeedBytes(port')) : SpeedBytes(port')[i] \in 5..99
           /\ MinusNeverRaises(Payload(request'), state_speed, SpeedBytes(port'))
      ]_vars

\* the speed bytes that could be taken for a prosign character or a control
AmbiguousSpeeds == {33, 38, 40, 42, 60, 61, 62} \cup {43, 45}

\* the text after the three steps in their order, each step as the
\* specification words it
Transformed(req, w) ==
    LET text == BeforeFirstNul(req)
        expanded == WithProsigns(text)
    IN IF \E i \in 1..Len(expanded) : expanded[i] \in {PLUS, MINUS}
       THEN IF w # 0 THEN Replaced(expanded, w) \o <<30>>
            ELSE SelectSeq(expanded, NotSpeedControl)
       ELSE expanded

\* C28: a text goes through strip, prosign expansion and speed-control
\* expansion in that order and no output is scanned again: a speed byte
\* that is the code of ! & ( * < = > + or - stays that one byte, so the
\* message is the text with its prosigns expanded and then its controls
\* replaced, and each 0x1C is followed by its speed.
C28_StepsNotRescanned ==
    [][ (IsText(request') /\ state_speed \in OrderSpeeds)
        => /\ port' = Upper(Transformed(request', state_speed))
           /\ SpeedBytes(port') = WorkingSpeeds(Payload(request'), state_speed)
           /\ error' = "none"
      ]_vars

\* C28 witness: at speed 41 the text +* was sent as 0x1C 43, the prosign AR
\* and 0x1E - the speed byte 43 (the code of +) one byte among them
C28_Witness ==
    /\ state_speed = 41
    /\ request = <<PLUS, Ord("*")>>
    /\ port = <<28, 43, 27, 65, 82, 30>>
    /\ port[2] \in AmbiguousSpeeds

\* the field a setter is for
SetterField ==
    [set_key1_enable |-> "key1_enable", set_key2_enable |-> "key2_enable",
     set_ultimatic_priority |-> "ultimatic_priority", set_hang_time |-> "hang_time",
     set_ptt_enable |-> "ptt_enable", set_sidetone_enable |-> "sidetone_enable"]

\* the fields of the keyer a step may change: the one of the setter called,
\* the sidetone for an ESC 3 frame
MayChange(method, req) ==
    (IF method \in PinconfigSetters THEN {SetterField[method]} ELSE {})
    \cup (IF IsEscape(req, "3") THEN {"sidetone_enable"} ELSE {})

\* C29: a setter changes its own field only, an ESC 3 frame at most the
\* sidetone, and what a setter writes is 0x09 and one byte that encodes
\* the six fields as they now are.
C29_PinconfigByteEncodesFields ==
    /\ [][ \A f \in DOMAIN winkeyer :
              winkeyer'[f] # winkeyer[f] => f \in MayChange(call'.method, request') ]_vars
    /\ [](PinconfigWritten
          => /\ Len(port) = 2
             /\ DecodePinconfig(port[2], winkeyer.corrected) = PinconfigFields)

\* main has just acted on this option
OptionApplied(option) ==
    /\ call.method # "__init__"
    /\ "option" \in DOMAIN call
    /\ call.option = option

\* C30: for --key_compensation N with N in 0..250 main writes the
\* key-compensation command 0x11 N; the first-extension command 0x10 is
\* written for --first_extension only.
C30_KeyCompensationWritten ==
    /\ (OptionApplied("--key_compensation") /\ call.arg \in 0..250)
       => port = <<17, call.arg>>
    /\ (call.method # "__init__" /\ port # <<>> /\ port[1] = 16)
       => OptionApplied("--first_extension")

====
